---- MODULE Spec2Model ----
(***************************************************************************)
(* Model of the SPATIALCODE backend: the POST /analyze handler             *)
(* (backend/app/api/routes.py), AIService.process_image and                *)
(* AIService._parse_response (backend/app/services/ai_service.py).         *)
(*                                                                         *)
(* A response text is a sequence of lexical tokens.  json.loads is         *)
(* modelled as a recursive-descent parser over that sequence, the fence    *)
(* stripping of _parse_response as prefix/suffix tests on it.              *)
(***************************************************************************)
EXTENDS Integers, Sequences, FiniteSets, TLC

(***************************************************************************)
(* Bounds of the model.                                                    *)
(***************************************************************************)
\* largest number of members of a generated_files object that is enumerated
MaxFiles == 2
\* largest number of tokens cut from the end of a reply
MaxCut == 2
\* longest upload, in bytes, that is enumerated beyond MAX_UPLOAD_SIZE
MaxOver == 1
\* number of requests in progress at the same time
MaxHandlers == 2
MaxEntries == 2

(***************************************************************************)
(* Configuration (backend/app/core/config.py).  MAX_UPLOAD_SIZE has no     *)
(* default; the model runs with a limit of one byte.                       *)
(***************************************************************************)
MAX_UPLOAD_SIZE == 1

\* the lengths of the prefixes of a text that are logged (ai_service.py 315,
\* 376, 380), in tokens: cleaned_text[:500] and response_text[:1000]
INFO_PREFIX == 4
ERROR_PREFIX == 8

(***************************************************************************)
(* Python values produced by json.loads.  Every value is a record of the   *)
(* same shape: type is one of "dict", "list", "str", "num", "bool",        *)
(* "None"; s is the text of a string or number; items is the ordered list  *)
(* of [key, val] entries of a dict (keys unique) or of a list (key "").    *)
(***************************************************************************)
PyStr(s) == [type |-> "str", s |-> s, items |-> <<>>]
PyNum(s) == [type |-> "num", s |-> s, items |-> <<>>]
PyNone == [type |-> "None", s |-> "", items |-> <<>>]
PyTrue == [type |-> "bool", s |-> "true", items |-> <<>>]
PyDict(items) == [type |-> "dict", s |-> "", items |-> items]
PyList(items) == [type |-> "list", s |-> "", items |-> items]
Entry(k, v) == [key |-> k, val |-> v]

\* the keys of a dict, as a set
Keys(items) == {items[i].key : i \in 1..Len(items)}

\* d[k] for a key the dict has
Get(items, k) == items[CHOOSE i \in 1..Len(items) : items[i].key = k].val

\* dict.get(key, default)
DictGet(items, k, default) == IF k \in Keys(items) THEN Get(items, k) ELSE default

\* d[k] = v: an existing key keeps its position, a new key is appended
DictSet(items, k, v) ==
    IF k \in Keys(items)
    THEN [i \in 1..Len(items) |-> IF items[i].key = k THEN Entry(k, v) ELSE items[i]]
    ELSE Append(items, Entry(k, v))

\* two dicts are equal when they have the same keys with the same values
DictEq(a, b) ==
    /\ Keys(a) = Keys(b)
    /\ \A k \in Keys(a) : Get(a, k) = Get(b, k)

(***************************************************************************)
(* Tokens of a response text.                                              *)
(***************************************************************************)
Tok(t) == [tok |-> t, s |-> ""]
TStr(s) == [tok |-> "str", s |-> s]
TNum(s) == [tok |-> "num", s |-> s]
LBrace == Tok("{")
RBrace == Tok("}")
LBrack == Tok("[")
RBrack == Tok("]")
Colon == Tok(":")
Comma == Tok(",")
TNull == Tok("null")
TTrue == Tok("true")
\* the constants NaN, Infinity and -Infinity, which json.loads accepts
TNaN == Tok("NaN")
\* a run of whitespace (blank, newline)
Ws == Tok("ws")
\* the three backticks of a Markdown fence
Fence == Tok("fence")
\* the bare word json, as in the language tag of a fence
WordJson == Tok("json")
\* another bare word, as in the language tag javascript
WordOther == Tok("javascript")

(***************************************************************************)
(* str.strip(): drop the whitespace at both ends.                          *)
(***************************************************************************)
RECURSIVE LStrip(_)
LStrip(t) == IF Len(t) > 0 /\ Head(t) = Ws THEN LStrip(Tail(t)) ELSE t

RECURSIVE RStrip(_)
RStrip(t) ==
    IF Len(t) > 0 /\ t[Len(t)] = Ws THEN RStrip(SubSeq(t, 1, Len(t) - 1)) ELSE t

Strip(t) == RStrip(LStrip(t))

StartsWithFenceJson(t) == Len(t) >= 2 /\ t[1] = Fence /\ t[2] = WordJson
StartsWithFence(t) == Len(t) >= 1 /\ t[1] = Fence
EndsWithFence(t) == Len(t) >= 1 /\ t[Len(t)] = Fence

\* CleanText without the test for the tag json of line 306
CleanText_NoTag(response_text) ==
    LET c0 == Strip(response_text)
        c2 == IF StartsWithFence(c0) THEN SubSeq(c0, 2, Len(c0)) ELSE c0
        c3 == IF EndsWithFence(c2) THEN SubSeq(c2, 1, Len(c2) - 1) ELSE c2
    IN Strip(c3)

\* ai_service.py 305-312
CleanText(response_text) ==
    LET c0 == Strip(response_text)
        c1 == IF StartsWithFenceJson(c0) THEN SubSeq(c0, 3, Len(c0)) ELSE c0
        c2 == IF StartsWithFence(c1) THEN SubSeq(c1, 2, Len(c1)) ELSE c1
        c3 == IF EndsWithFence(c2) THEN SubSeq(c2, 1, Len(c2) - 1) ELSE c2
    IN Strip(c3)

(***************************************************************************)
(* json.loads: the scanner of the json package (scan_once, JSONObject,     *)
(* JSONArray) and the end-of-document test of JSONDecoder.decode.  A       *)
(* result is [ok, val, pos]: ok is FALSE where json raises                 *)
(* JSONDecodeError, pos is the index after the value.                      *)
(***************************************************************************)
RECURSIVE SkipWs(_, _)
SkipWs(t, i) == IF i <= Len(t) /\ t[i] = Ws THEN SkipWs(t, i + 1) ELSE i

At(t, i) == IF i <= Len(t) THEN t[i] ELSE Tok("eof")

DecodeError == [ok |-> FALSE, val |-> PyNone, pos |-> 0]
Decoded(v, p) == [ok |-> TRUE, val |-> v, pos |-> p]

RECURSIVE ScanOnce(_, _)
RECURSIVE JSONObject(_, _, _)
RECURSIVE JSONArray(_, _, _)

ScanOnce(t, i) ==
    LET c == At(t, i)
    IN CASE c.tok = "str" -> Decoded(PyStr(c.s), i + 1)
         [] c.tok = "num" -> Decoded(PyNum(c.s), i + 1)
         [] c.tok = "null" -> Decoded(PyNone, i + 1)
         [] c.tok = "true" -> Decoded(PyTrue, i + 1)
         [] c.tok = "NaN" -> Decoded(PyNum("nan"), i + 1)
         [] c.tok = "{" ->
              LET j == SkipWs(t, i + 1)
              IN IF At(t, j) = RBrace
                 THEN Decoded(PyDict(<<>>), j + 1)
                 ELSE JSONObject(t, j, <<>>)
         [] c.tok = "[" ->
              LET j == SkipWs(t, i + 1)
              IN IF At(t, j) = RBrack
                 THEN Decoded(PyList(<<>>), j + 1)
                 ELSE JSONArray(t, j, <<>>)
         [] OTHER -> DecodeError

\* the members of an object from the key at position i on; pairs holds the
\* members read so far (a repeated key keeps its place and takes the last value)
JSONObject(t, i, pairs) ==
    LET c == At(t, i)
        j == SkipWs(t, i + 1)
        r == ScanOnce(t, SkipWs(t, j + 1))
        k == SkipWs(t, r.pos)
        pairs2 == DictSet(pairs, c.s, r.val)
    IN IF c.tok # "str" THEN DecodeError
       ELSE IF At(t, j) # Colon THEN DecodeError
       ELSE IF ~r.ok THEN DecodeError
       ELSE IF At(t, k) = RBrace THEN Decoded(PyDict(pairs2), k + 1)
       ELSE IF At(t, k) # Comma THEN DecodeError
       ELSE JSONObject(t, SkipWs(t, k + 1), pairs2)

\* the elements of an array from the value at position i on
JSONArray(t, i, elems) ==
    LET r == ScanOnce(t, i)
        k == SkipWs(t, r.pos)
        elems2 == Append(elems, Entry("", r.val))
    IN IF ~r.ok THEN DecodeError
       ELSE IF At(t, k) = RBrack THEN Decoded(PyList(elems2), k + 1)
       ELSE IF At(t, k) # Comma THEN DecodeError
       ELSE JSONArray(t, SkipWs(t, k + 1), elems2)

\* json.loads(s): one value, whitespace around it, nothing after it
JsonLoads(t) ==
    LET r == ScanOnce(t, SkipWs(t, 1))
    IN IF ~r.ok THEN DecodeError
       ELSE IF SkipWs(t, r.pos) # Len(t) + 1 THEN DecodeError
       ELSE r

(***************************************************************************)
(* The grammar of RFC 8259, by which a text is a JSON document or is not:  *)
(* the same grammar as above without the constants NaN and Infinity.       *)
(***************************************************************************)
RECURSIVE JsonValueEnd(_, _)
RECURSIVE JsonMembersEnd(_, _)
RECURSIVE JsonElementsEnd(_, _)

\* the index after the JSON value that starts at position i, 0 if there is none
JsonValueEnd(t, i) ==
    LET c == At(t, i)
    IN CASE c.tok \in {"str", "num", "null", "true"} -> i + 1
         [] c.tok = "{" ->
              LET j == SkipWs(t, i + 1)
              IN IF At(t, j) = RBrace THEN j + 1 ELSE JsonMembersEnd(t, j)
         [] c.tok = "[" ->
              LET j == SkipWs(t, i + 1)
              IN IF At(t, j) = RBrack THEN j + 1 ELSE JsonElementsEnd(t, j)
         [] OTHER -> 0

JsonMembersEnd(t, i) ==
    LET j == SkipWs(t, i + 1)
        e == JsonValueEnd(t, SkipWs(t, j + 1))
        k == SkipWs(t, e)
    IN IF At(t, i).tok # "str" \/ At(t, j) # Colon \/ e = 0 THEN 0
       ELSE IF At(t, k) = RBrace THEN k + 1
       ELSE IF At(t, k) # Comma THEN 0
       ELSE JsonMembersEnd(t, SkipWs(t, k + 1))

JsonElementsEnd(t, i) ==
    LET e == JsonValueEnd(t, i)
        k == SkipWs(t, e)
    IN IF e = 0 THEN 0
       ELSE IF At(t, k) = RBrack THEN k + 1
       ELSE IF At(t, k) # Comma THEN 0
       ELSE JsonElementsEnd(t, SkipWs(t, k + 1))

IsJsonDocument(t) ==
    LET e == JsonValueEnd(t, SkipWs(t, 1))
    IN e # 0 /\ SkipWs(t, e) = Len(t) + 1

(***************************************************************************)
(* json.dumps: the compact text of a value.                                *)
(***************************************************************************)
RECURSIVE Dumps(_)
RECURSIVE DumpItems(_, _)

Dumps(v) ==
    CASE v.type = "str" -> <<TStr(v.s)>>
      [] v.type = "num" -> IF v.s = "nan" THEN <<TNaN>> ELSE <<TNum(v.s)>>
      [] v.type = "None" -> <<TNull>>
      [] v.type = "bool" -> <<TTrue>>
      [] v.type = "dict" -> <<LBrace>> \o DumpItems(v.items, TRUE) \o <<RBrace>>
      [] v.type = "list" -> <<LBrack>> \o DumpItems(v.items, FALSE) \o <<RBrack>>

DumpItems(items, withKeys) ==
    IF items = <<>> THEN <<>>
    ELSE (IF withKeys THEN <<TStr(items[1].key), Colon>> ELSE <<>>)
         \o Dumps(items[1].val)
         \o (IF Len(items) > 1
             THEN <<Comma>> \o DumpItems(Tail(items), withKeys)
             ELSE <<>>)

(***************************************************************************)
(* AIService._parse_response (ai_service.py 292-381).                      *)
(***************************************************************************)
\* the fallback summary without the description
FallbackSummary_NoDescription(description) == PyStr("Generated application based on: ")

\* the fallback summary of line 321
FallbackSummary(description) == PyStr("Generated application based on: " \o description)

\* CopyFiles that keeps only the files whose name it knows
RECURSIVE CopyFiles_Known(_, _)
CopyFiles_Known(files_dict, normalized_files) ==
    IF files_dict = <<>> THEN normalized_files
    ELSE CopyFiles_Known(Tail(files_dict),
            IF files_dict[1].key \in {"App.jsx", "App.tsx", "app.jsx", "app.tsx", "App.js", "app.js",
                                      "models.py", "main.py", "README.md"}
            THEN DictSet(normalized_files, files_dict[1].key, files_dict[1].val)
            ELSE normalized_files)

\* lines 328-331: copy every entry of files_dict into a fresh dict
RECURSIVE CopyFiles(_, _)
CopyFiles(files_dict, normalized_files) ==
    IF files_dict = <<>> THEN normalized_files
    ELSE CopyFiles(Tail(files_dict),
                   DictSet(normalized_files, files_dict[1].key, files_dict[1].val))

\* the React names with the upper-case spelling added
ReactNames_Upper == {"App.jsx", "App.tsx", "app.jsx", "app.tsx", "App.js", "app.js", "APP.JSX"}

\* line 337: the names taken for the React component
ReactNames == {"App.jsx", "App.tsx", "app.jsx", "app.tsx", "App.js", "app.js"}

\* ReactFileKey that takes the first name of the list of line 337 that is a
\* key, instead of the first key that is in the list
ReactFileKey_ListOrder(normalized_files) ==
    LET names == <<"App.jsx", "App.tsx", "app.jsx", "app.tsx", "App.js", "app.js">>
        hits == {i \in 1..Len(names) : names[i] \in Keys(normalized_files)}
    IN IF hits = {} THEN ""
       ELSE names[CHOOSE i \in hits : \A j \in hits : i <= j]

\* lines 334-340: the first key, in the dict's order, that is a React name;
\* "" stands for react_file_found = False
RECURSIVE ReactFileKey(_)
ReactFileKey(normalized_files) ==
    IF normalized_files = <<>> THEN ""
    ELSE IF normalized_files[1].key \in ReactNames THEN normalized_files[1].key
    ELSE ReactFileKey(Tail(normalized_files))

\* MapReactFile without the test of line 344: the file found is copied over
\* an App.jsx that is there
MapReactFile_Overwrite(normalized_files) ==
    LET react_file_key == ReactFileKey(normalized_files)
    IN IF react_file_key # "" /\ react_file_key # "App.jsx"
       THEN DictSet(normalized_files, "App.jsx", Get(normalized_files, react_file_key))
       ELSE normalized_files

\* MapReactFile that renames the file found instead of copying it
MapReactFile_Rename(normalized_files) ==
    LET react_file_key == ReactFileKey(normalized_files)
    IN IF react_file_key # "" /\ react_file_key # "App.jsx"
          /\ "App.jsx" \notin Keys(normalized_files)
       THEN DictSet(SelectSeq(normalized_files, LAMBDA e : e.key # react_file_key),
                    "App.jsx", Get(normalized_files, react_file_key))
       ELSE normalized_files

\* lines 343-347
MapReactFile(normalized_files) ==
    LET react_file_key == ReactFileKey(normalized_files)
    IN IF react_file_key # "" /\ react_file_key # "App.jsx"
          /\ "App.jsx" \notin Keys(normalized_files)
       THEN DictSet(normalized_files, "App.jsx", Get(normalized_files, react_file_key))
       ELSE normalized_files

\* the placeholder of App.jsx copied from the one of README.md
AppPlaceholder_Copied == "# README\n# File not generated by AI"

\* line 353
AppPlaceholder == "# App.jsx\n# File not generated by AI\n# Please check the AI response"

\* EnsureApp that stores the placeholder under the lower-case name
EnsureApp_WrongKey(normalized_files) ==
    IF "App.jsx" \notin Keys(normalized_files)
    THEN DictSet(normalized_files, "app.jsx", PyStr(AppPlaceholder))
    ELSE normalized_files

\* lines 351-353
EnsureApp(normalized_files) ==
    IF "App.jsx" \notin Keys(normalized_files)
    THEN DictSet(normalized_files, "App.jsx", PyStr(AppPlaceholder))
    ELSE normalized_files

\* critical_files without the entry of README.md
critical_files_NoReadme ==
    << Entry("models.py", PyStr("# SQLAlchemy models\n# File not generated by AI")),
       Entry("main.py", PyStr("# FastAPI application\n# File not generated by AI")) >>

\* lines 356-360
critical_files ==
    << Entry("models.py", PyStr("# SQLAlchemy models\n# File not generated by AI")),
       Entry("main.py", PyStr("# FastAPI application\n# File not generated by AI")),
       Entry("README.md", PyStr("# README\n# File not generated by AI")) >>

\* EnsureCritical that tests the truth of the value instead of the presence
\* of the key: an empty file is taken for a missing one
RECURSIVE EnsureCritical_Truthy(_, _)
EnsureCritical_Truthy(crit, normalized_files) ==
    IF crit = <<>> THEN normalized_files
    ELSE EnsureCritical_Truthy(Tail(crit),
            IF DictGet(normalized_files, crit[1].key, PyStr("")) = PyStr("")
            THEN DictSet(normalized_files, crit[1].key, crit[1].val)
            ELSE normalized_files)

\* lines 362-365, over the entries crit of critical_files
RECURSIVE EnsureCritical(_, _)
EnsureCritical(crit, normalized_files) ==
    IF crit = <<>> THEN normalized_files
    ELSE EnsureCritical(Tail(crit),
            IF crit[1].key \notin Keys(normalized_files)
            THEN DictSet(normalized_files, crit[1].key, crit[1].val)
            ELSE normalized_files)

\* lines 327-367: the file map built from files_dict
NormalizeFiles(files_dict) ==
    EnsureCritical(critical_files, EnsureApp(MapReactFile(CopyFiles(files_dict, <<>>))))

\* the result object: a summary and a file map
AnalysisResult(summary, files) == [summary |-> summary, files |-> files]

NoResult == AnalysisResult(PyNone, <<>>)

\* what a call leaves: exc is "" and result the returned object, or exc is the
\* type of the exception raised (msg its message) and there is no result
Returned(result) == [exc |-> "", msg |-> "", result |-> result]
Raised(exc, msg) == [exc |-> exc, msg |-> msg, result |-> NoResult]

\* ParseBody that takes a generated_files member that is not a dict for an
\* empty one
ParseBody_OrEmpty(response_text, description) ==
    LET cleaned_text == CleanText(response_text)
        loaded == JsonLoads(cleaned_text)
        data == loaded.val
        summary == DictGet(data.items, "analysis_summary", FallbackSummary(description))
        files_dict == DictGet(data.items, "generated_files", PyDict(<<>>))
    IN IF ~loaded.ok THEN Raised("JSONDecodeError", "")
       ELSE IF data.type # "dict" THEN Raised("AttributeError", "get")
       ELSE IF files_dict.type # "dict" THEN Returned(AnalysisResult(summary, NormalizeFiles(<<>>)))
       ELSE Returned(AnalysisResult(summary, NormalizeFiles(files_dict.items)))

\* ParseBody whose data.get("generated_files") has no default: a missing
\* member gives None
ParseBody_NoDefault(response_text, description) ==
    LET cleaned_text == CleanText(response_text)
        loaded == JsonLoads(cleaned_text)
        data == loaded.val
        summary == DictGet(data.items, "analysis_summary", FallbackSummary(description))
        files_dict == DictGet(data.items, "generated_files", PyNone)
    IN IF ~loaded.ok THEN Raised("JSONDecodeError", "")
       ELSE IF data.type # "dict" THEN Raised("AttributeError", "get")
       ELSE IF files_dict.type # "dict" THEN Raised("AttributeError", "keys")
       ELSE Returned(AnalysisResult(summary, NormalizeFiles(files_dict.items)))

\* lines 303-372, the body of the try statement
ParseBody(response_text, description) ==
    LET cleaned_text == CleanText(response_text)
        loaded == JsonLoads(cleaned_text)
        data == loaded.val
        summary == DictGet(data.items, "analysis_summary", FallbackSummary(description))
        files_dict == DictGet(data.items, "generated_files", PyDict(<<>>))
    IN IF ~loaded.ok THEN Raised("JSONDecodeError", "")
       ELSE IF data.type # "dict" THEN Raised("AttributeError", "get")
       ELSE IF files_dict.type # "dict" THEN Raised("AttributeError", "keys")
       ELSE Returned(AnalysisResult(summary, NormalizeFiles(files_dict.items)))

\* ParseExcept without the clause of lines 378-381: only JSONDecodeError is
\* turned into ValueError
ParseExcept_NoCatchAll(body) ==
    IF body.exc = "JSONDecodeError"
    THEN Raised("ValueError", "Invalid JSON response from AI")
    ELSE body

\* lines 374-381, the except clauses
ParseExcept(body) ==
    IF body.exc = "" THEN body
    ELSE IF body.exc = "JSONDecodeError"
    THEN Raised("ValueError", "Invalid JSON response from AI")
    ELSE Raised("ValueError", "Failed to parse AI response")

ParseResponse(response_text, description) ==
    ParseExcept(ParseBody(response_text, description))

\* text[:n]
Prefix(text, n) == SubSeq(text, 1, IF Len(text) < n THEN Len(text) ELSE n)

\* a log line, or the message of an exception: its fixed words, and the
\* tokens of the response text or of the document that it quotes
Line(text, quoted) == [text |-> text, quoted |-> quoted]

\* str(e) of the exception caught at lines 374-381: for a JSONDecodeError the
\* reason with the line, column and character position, for an
\* AttributeError the type and the attribute name; neither quotes the text
StrOfException(body) == Line(body.msg, <<>>)

\* lines 377 and 381: the message of the ValueError raised
ParseErrorMessage(response_text, body) ==
    Line(ParseExcept(body).msg, StrOfException(body).quoted)

\* the keys of a dict as they are listed in a log line
KeyList(items) == [i \in 1..Len(items) |-> TStr(items[i].key)]

\* the lines _parse_response logs that quote the reply: line 315, then
\* lines 325 and 367 when a result is returned, or lines 375-376 and 379-380
\* when an exception is caught
ParseLog(response_text, body) ==
    <<Line("Parsing AI response (first 500 chars)", Prefix(CleanText(response_text), INFO_PREFIX))>>
    \o (IF body.exc = ""
        THEN <<Line("Files received from AI",
                    KeyList(DictGet(JsonLoads(CleanText(response_text)).val.items,
                                    "generated_files", PyDict(<<>>)).items)),
               Line("Final files to return", KeyList(body.result.files))>>
        ELSE <<Line(IF body.exc = "JSONDecodeError" THEN "Failed to parse JSON response"
                                                    ELSE "Error parsing response",
                    StrOfException(body).quoted),
               Line("Response text (first 1000 chars)", Prefix(response_text, ERROR_PREFIX))>>)

(***************************************************************************)
(* The replies of the generation service that are enumerated: the texts    *)
(* of a family of JSON documents, whole, cut short, or wrapped in a fence, *)
(* and some texts written out by hand.                                     *)
(***************************************************************************)
FileNames == {"App.jsx", "app.jsx", "App.tsx", "models.py", "main.py", "README.md", "notes.txt"}
FileContents == {PyStr("code"), PyStr("")}

RECURSIVE FileMapsOfLen(_)
FileMapsOfLen(n) ==
    IF n = 0 THEN {<<>>}
    ELSE UNION { {Append(m, Entry(k, c)) : k \in FileNames \ Keys(m), c \in FileContents}
                 : m \in FileMapsOfLen(n - 1) }

FileMaps == UNION {FileMapsOfLen(n) : n \in 0..MaxFiles}

SummaryMembers ==
    { <<>>, <<Entry("analysis_summary", PyStr("s"))>>, <<Entry("analysis_summary", PyNum("5"))>> }

\* the generated_files member: absent, an object of files, or another value
FilesMembers(maps) ==
    {<<>>} \cup
    { <<Entry("generated_files", v)>> :
        v \in {PyDict(m) : m \in maps} \cup {PyNone, PyList(<<>>), PyStr("x"), PyNum("5")} }

\* objects with a summary and any of the file maps, objects with any of the
\* summary members and at most one file, and values that are not objects
Documents ==
    {PyDict(<<Entry("analysis_summary", PyStr("s"))>> \o fm) : fm \in FilesMembers(FileMaps)}
    \cup {PyDict(sm \o fm) : sm \in SummaryMembers, fm \in FilesMembers(FileMapsOfLen(0) \cup FileMapsOfLen(1))}
    \cup {PyList(<<Entry("", PyStr("x"))>>), PyStr("x"), PyNum("5"), PyNone, PyTrue}

\* t without its last k tokens
Cut(t, k) == SubSeq(t, 1, IF k < Len(t) THEN Len(t) - k ELSE 0)

\* a fence around a text: the tokens before it and after it
Wrapping(pre, post) == [pre |-> pre, post |-> post]
Wrap(w, t) == w.pre \o t \o w.post

\* an opening marker, with the tag json or with none, and a closing marker
JsonFences ==
    { Wrapping(<<Fence, WordJson, Ws>>, <<Ws, Fence>>),
      Wrapping(<<Fence, Ws>>, <<Ws, Fence>>),
      Wrapping(<<Ws, Fence, WordJson>>, <<Fence, Ws>>),
      Wrapping(<<Fence>>, <<Fence>>) }

\* an opening marker with another language tag, and a closing marker
OtherFences == { Wrapping(<<Fence, WordOther, Ws>>, <<Ws, Fence>>) }

Fences == JsonFences \cup OtherFences

\* how a reply wraps its document: not at all, in a fence with the tag json,
\* in a fence without a tag, in a fence with another tag, in a fence left open
Wrappings ==
    { Wrapping(<<>>, <<>>),
      Wrapping(<<Fence, WordJson, Ws>>, <<Ws, Fence>>),
      Wrapping(<<Fence>>, <<Fence>>),
      Wrapping(<<Fence, WordOther, Ws>>, <<Ws, Fence>>),
      Wrapping(<<Fence, WordJson, Ws>>, <<>>) }

HandTexts ==
    { <<>>,
      <<Ws>>,
      <<Fence>>,
      <<TNaN>>,
      <<LBrace, TStr("note"), Colon, TNaN, RBrace>>,
      <<LBrace, TStr("generated_files"), Colon, LBrace, TStr("app.jsx"), Colon, TNaN, RBrace, RBrace>>,
      <<LBrace, TStr("analysis_summary"), Colon, TStr("s"), Comma, RBrace>>,
      <<LBrace, RBrace, LBrace, RBrace>>,
      <<LBrack, TStr("x"), Comma, RBrack>>,
      <<WordJson, LBrace, RBrace>>,
      <<LBrace, Ws, TStr("generated_files"), Ws, Colon, Ws, LBrace, Ws, TStr("app.jsx"), Colon,
        TStr("code"), Ws, Comma, Ws, TStr("App.tsx"), Colon, TStr(""), RBrace, Ws, RBrace>>,
      <<LBrace, TStr("generated_files"), Colon, LBrace, TStr("App.tsx"), Colon, TStr("code"), Comma,
        TStr("app.jsx"), Colon, TStr(""), Comma, TStr("App.tsx"), Colon, TStr("alt"), RBrace, RBrace>>,
      <<LBrace, TStr("generated_files"), Colon, LBrace, RBrace, Comma,
        TStr("generated_files"), Colon, TNull, RBrace>> }

Replies ==
    {Wrap(w, Dumps(d)) : w \in Wrappings, d \in Documents}
    \cup {Cut(Dumps(d), k) : k \in 1..MaxCut, d \in Documents}
    \cup HandTexts

\* file maps with names that are near the React names without being one of
\* them, and contents with quotes, a backslash and a newline
EntryNames == {"App.jsx", "app.js", "App.tsx", "APP.JSX", "index.jsx", "src/App.jsx", "main.py"}
EntryContents == {PyStr("<App/>"), PyStr("\"a\\b\"\n")}

RECURSIVE EntryMapsOfLen(_)
EntryMapsOfLen(n) ==
    IF n = 0 THEN {<<>>}
    ELSE UNION { {Append(m, Entry(k, c)) : k \in EntryNames \ Keys(m), c \in EntryContents}
                 : m \in EntryMapsOfLen(n - 1) }

EntryMaps == UNION {EntryMapsOfLen(n) : n \in 0..MaxEntries}

\* documents whose generated_files is one of these maps, or not a mapping
EntryReplies ==
    { Dumps(PyDict(<<Entry("generated_files", v)>>)) :
        v \in {PyDict(m) : m \in EntryMaps}
              \cup {PyNone, PyTrue, PyList(<<>>), PyList(<<Entry("", PyStr("x"))>>),
                    PyStr("x"), PyNum("5")} }

\* a declared media type: the text before the slash and the text after it;
\* NoContentType is an upload part without a Content-Type header
MediaType(major, minor) == [major |-> major, minor |-> minor]
NoContentType == MediaType("None", "")
ContentTypes == {MediaType("image", "png"), MediaType("text", "plain"), NoContentType}

ImageLengths == 0..(MAX_UPLOAD_SIZE + MaxOver)

Descriptions == {"A task tracker", ""}

\* the exception types the call of the generation service is made to raise
UpstreamErrors == {"APIError", "ConnectError", "ValueError"}

\* issubclass(type, ValueError)
IsValueError(type) == type \in {"ValueError", "JSONDecodeError", "ValidationError"}

(***************************************************************************)
(* Settings (config.py 6-36): the fields of the class, and those declared  *)
(* with Field(...), which have no default.                                 *)
(***************************************************************************)
SettingsFields ==
    {"API_V1_PREFIX", "PROJECT_NAME", "VERSION", "GEMINI_API_KEY", "GEMINI_MODEL",
     "CORS_ORIGINS", "DEBUG", "MAX_UPLOAD_SIZE"}

\* the fields without a default, had DEBUG been given the default False
RequiredFields_DebugDefault == SettingsFields \ {"DEBUG"}

RequiredFields == SettingsFields

\* Settings(): validation fails when a required field has no value in the
\* environment
SettingsLoad(environment) == RequiredFields \subseteq environment

(***************************************************************************)
(* ExampleService (example_service.py).  The text of a file of the catalog *)
(* is written as example/file name.                                        *)
(***************************************************************************)
ExampleFiles(id) ==
    << Entry("models.py", PyStr(id \o "/models.py")),
       Entry("main.py", PyStr(id \o "/main.py")),
       Entry("App.jsx", PyStr(id \o "/App.jsx")),
       Entry("README.md", PyStr(id \o "/README.md")) >>

\* the catalog with a clinic example that has no README.md
EXAMPLES_NoReadme ==
    << Entry("food-pantry", AnalysisResult(PyStr("A Food Pantry Management System"), ExampleFiles("food-pantry"))),
       Entry("library", AnalysisResult(PyStr("A Library Book Tracking System"), ExampleFiles("library"))),
       Entry("clinic", AnalysisResult(PyStr("A Clinic Appointment Management System"),
                                      SubSeq(ExampleFiles("clinic"), 1, 3))) >>

\* example_service.py 10-820
EXAMPLES ==
    << Entry("food-pantry", AnalysisResult(PyStr("A Food Pantry Management System"), ExampleFiles("food-pantry"))),
       Entry("library", AnalysisResult(PyStr("A Library Book Tracking System"), ExampleFiles("library"))),
       Entry("clinic", AnalysisResult(PyStr("A Clinic Appointment Management System"), ExampleFiles("clinic"))) >>

\* get_example that falls back to the first example for an unknown identifier
GetExampleCall_Fallback(examples, example_id) ==
    IF example_id \notin Keys(examples)
    THEN Returned(examples[1].val)
    ELSE Returned(Get(examples, example_id))

\* example_service.py 822-839
GetExampleCall(examples, example_id) ==
    IF example_id \notin Keys(examples)
    THEN Raised("ValueError", "Example not found")
    ELSE Returned(Get(examples, example_id))

\* example_service.py 841-843
ListExamplesCall(examples) == [i \in 1..Len(examples) |-> examples[i].key]

\* the identifiers asked for
ExampleIds == {"food-pantry", "library", "clinic", "unknown-id", "", "Food-Pantry"}

(***************************************************************************)
(* The state of the application and of the request it is serving.          *)
(*   pc        "boot" while the modules are imported, "crashed" when the   *)
(*             import failed, else where the request handler stands        *)
(*   env       the settings that have a value in the environment           *)
(*   examples  ExampleService.EXAMPLES, the catalog                        *)
(*   path      the route of the request, and the identifier in its path    *)
(*   request   the upload: declared media type, length in bytes, and the   *)
(*             description                                                 *)
(*   calls     how many times client.models.generate_content was called    *)
(*             for the request                                             *)
(*   gemini    what client.models.generate_content left: a text or an      *)
(*             exception                                                   *)
(*   parsed    what _parse_response left: a result or an exception         *)
(*   fetched   what ExampleService.get_example left                        *)
(*   raised    the exception in flight inside the try statement of the     *)
(*             handler                                                     *)
(*   response  the HTTP response: status, detail of an error, body, and    *)
(*             the identifiers listed                                      *)
(*   handlers  the requests in progress when several are served at once    *)
(*   log       the lines _parse_response has logged for the request         *)
(***************************************************************************)
VARIABLES pc, env, examples, path, request, calls, gemini, parsed, fetched, raised, response,
          handlers, log

vars == <<pc, env, examples, path, request, calls, gemini, parsed, fetched, raised, response,
          handlers, log>>

NotCalled == [exc |-> "not called", msg |-> "", result |-> NoResult]
NoReply == [exc |-> "not called", text |-> <<>>]
NoException == [exc |-> "", msg |-> ""]
NoResponse == [status |-> 0, detail |-> "", body |-> NoResult, ids |-> <<>>]
NoRequest == [content_type |-> NoContentType, length |-> 0, description |-> ""]
NoPath == [route |-> "", example_id |-> ""]

Path(route, example_id) == [route |-> route, example_id |-> example_id]
Exception(exc, msg) == [exc |-> exc, msg |-> msg]
HTTPException(status_code, detail) ==
    [status |-> status_code, detail |-> detail, body |-> NoResult, ids |-> <<>>]
\* a response of status 200 with a result as its body, or with a list
ResultResponse(result) == [status |-> 200, detail |-> "", body |-> result, ids |-> <<>>]
ListResponse(ids) == [status |-> 200, detail |-> "", body |-> NoResult, ids |-> ids]

\* a request slot of the concurrent server that holds no request
IdleHandler ==
    [pc |-> "idle", path |-> NoPath, request |-> NoRequest, gemini |-> NoReply,
     response |-> NoResponse]

Handlers == 1..MaxHandlers

\* the process starts: nothing is imported yet
Init ==
    /\ pc = "boot"
    /\ env \in SUBSET SettingsFields
    /\ examples = <<>>
    /\ path = NoPath
    /\ request = NoRequest
    /\ calls = 0
    /\ gemini = NoReply
    /\ parsed = NotCalled
    /\ fetched = NotCalled
    /\ raised = NoException
    /\ response = NoResponse
    /\ handlers = [h \in Handlers |-> IdleHandler]
    /\ log = <<>>

\* main.py 6-35: importing app.core.config runs settings = Settings()
\* (config.py 36); when that raises, the import of main fails and no app
\* exists; otherwise the services and the catalog are built (routes.py 15-16)
Startup ==
    /\ pc = "boot"
    /\ IF SettingsLoad(env)
       THEN /\ pc' = "idle"
            /\ examples' = EXAMPLES
       ELSE /\ pc' = "crashed"
            /\ examples' = examples
    /\ UNCHANGED <<env, path, request, calls, gemini, parsed, fetched, raised, response, handlers, log>>

\* a request reaches the handler (routes.py 19-23)
Receive ==
    /\ pc \in {"idle", "done"}
    /\ \E ct \in ContentTypes, n \in ImageLengths, d \in Descriptions :
          request' = [content_type |-> ct, length |-> n, description |-> d]
    /\ pc' = "check_type"
    /\ path' = Path("analyze", "")
    /\ calls' = 0
    /\ gemini' = NoReply
    /\ parsed' = NotCalled
    /\ fetched' = NotCalled
    /\ raised' = NoException
    /\ response' = NoResponse
    /\ log' = <<>>
    /\ UNCHANGED <<env, examples, handlers>>

\* image.content_type.startswith("image/")
StartsWithImage(content_type) == content_type.major = "image"

\* routes.py 36-40
CheckType ==
    /\ pc = "check_type"
    /\ IF request.content_type = NoContentType
       THEN /\ raised' = Exception("AttributeError", "startswith")
            /\ pc' = "except"
       ELSE IF ~StartsWithImage(request.content_type)
       THEN /\ raised' = Exception("HTTPException", "400: File must be an image")
            /\ pc' = "except"
       ELSE /\ raised' = raised
            /\ pc' = "check_size"
    /\ UNCHANGED <<request, gemini, parsed, response>>
    /\ UNCHANGED <<env, examples, path, calls, fetched, handlers, log>>

\* the size test with >= for >
ExceedsMaximum_AtLeast(length) == length >= MAX_UPLOAD_SIZE

\* routes.py 47
ExceedsMaximum(length) == length > MAX_UPLOAD_SIZE

\* analyze_image without the size check of lines 47-51
CheckSize_Skipped ==
    /\ pc = "check_size"
    /\ raised' = raised
    /\ pc' = "generate"
    /\ UNCHANGED <<request, gemini, parsed, response>>
    /\ UNCHANGED <<env, examples, path, calls, fetched, handlers, log>>

\* routes.py 43-51
CheckSize ==
    /\ pc = "check_size"
    /\ IF ExceedsMaximum(request.length)
       THEN /\ raised' = Exception("HTTPException", "400: Image size exceeds maximum allowed size")
            /\ pc' = "except"
       ELSE /\ raised' = raised
            /\ pc' = "generate"
    /\ UNCHANGED <<request, gemini, parsed, response>>
    /\ UNCHANGED <<env, examples, path, calls, fetched, handlers, log>>

\* Generate with a second attempt after a failed call
Generate_Retry ==
    /\ pc = "generate"
    /\ calls' = calls + 1
    /\ \/ \E text \in Replies :
             /\ gemini' = [exc |-> "", text |-> text]
             /\ raised' = raised
             /\ pc' = "parse"
       \/ \E e \in UpstreamErrors :
             /\ gemini' = [exc |-> e, text |-> <<>>]
             /\ IF calls = 0
                THEN /\ raised' = raised
                     /\ pc' = "generate"
                ELSE /\ raised' = Exception(e, "upstream")
                     /\ pc' = "except"
    /\ UNCHANGED <<request, parsed, response>>
    /\ UNCHANGED <<env, examples, path, fetched, handlers, log>>

\* routes.py 55 and ai_service.py 41-63, 74-76: the one call of the generation
\* service; an exception of the call is logged and raised again
Generate ==
    /\ pc = "generate"
    /\ calls' = calls + 1
    /\ \/ \E text \in Replies :
             /\ gemini' = [exc |-> "", text |-> text]
             /\ raised' = raised
             /\ pc' = "parse"
       \/ \E e \in UpstreamErrors :
             /\ gemini' = [exc |-> e, text |-> <<>>]
             /\ raised' = Exception(e, "upstream")
             /\ pc' = "except"
    /\ UNCHANGED <<request, parsed, response>>
    /\ UNCHANGED <<env, examples, path, fetched, handlers, log>>

\* ai_service.py 66-76: _parse_response on the text of the reply; its
\* ValueError is logged and raised again
Parse ==
    /\ pc = "parse"
    /\ parsed' = ParseResponse(gemini.text, request.description)
    /\ IF parsed'.exc = ""
       THEN /\ raised' = raised
            /\ pc' = "build"
       ELSE /\ raised' = Exception(parsed'.exc, parsed'.msg)
            /\ pc' = "except"
    /\ log' = log \o ParseLog(gemini.text, ParseBody(gemini.text, request.description))
    /\ UNCHANGED <<request, gemini, response>>
    /\ UNCHANGED <<env, examples, path, calls, fetched, handlers>>

\* AnalysisResult.to_response: the two fields under their response names
ToResponse(result) ==
    [analysis_summary |-> result.summary, generated_files |-> result.files]

\* schemas.py 17-20: analysis_summary is a str, generated_files a Dict[str, str]
AnalysisResponseValid(data) ==
    /\ data.analysis_summary.type = "str"
    /\ \A i \in 1..Len(data.generated_files) : data.generated_files[i].val.type = "str"

\* routes.py 58-62
BuildResponse ==
    /\ pc = "build"
    /\ IF AnalysisResponseValid(ToResponse(parsed.result))
       THEN /\ response' = ResultResponse(parsed.result)
            /\ raised' = raised
            /\ pc' = "done"
       ELSE /\ raised' = Exception("ValidationError", "AnalysisResponse")
            /\ response' = response
            /\ pc' = "except"
    /\ UNCHANGED <<request, gemini, parsed>>
    /\ UNCHANGED <<env, examples, path, calls, fetched, handlers, log>>

\* routes.py 64: the first except clause takes the exceptions that are ValueErrors
CaughtAsValueError(exc) == IsValueError(exc.exc)

\* routes.py 64-69
ExceptValueError ==
    /\ pc = "except"
    /\ CaughtAsValueError(raised)
    /\ response' = HTTPException(400, raised.msg)
    /\ pc' = "done"
    /\ UNCHANGED <<request, gemini, parsed, raised>>
    /\ UNCHANGED <<env, examples, path, calls, fetched, handlers, log>>

\* routes.py 70-75
ExceptException ==
    /\ pc = "except"
    /\ ~CaughtAsValueError(raised)
    /\ response' = HTTPException(500, "Failed to process image")
    /\ pc' = "done"
    /\ UNCHANGED <<request, gemini, parsed, raised>>
    /\ UNCHANGED <<env, examples, path, calls, fetched, handlers, log>>

\* routes.py 78-86, for the catalog as it stands
ListExamplesResponse(catalog) == ListResponse(ListExamplesCall(catalog))

\* GET /examples
ListExamples ==
    /\ pc \in {"idle", "done"}
    /\ path' = Path("list", "")
    /\ response' = ListExamplesResponse(examples)
    /\ pc' = "done"
    /\ request' = NoRequest
    /\ calls' = 0
    /\ gemini' = NoReply
    /\ parsed' = NotCalled
    /\ fetched' = NotCalled
    /\ raised' = NoException
    /\ log' = <<>>
    /\ UNCHANGED <<env, examples, handlers>>

\* the route without its try statement: the ValueError of get_example is not
\* handled and the server answers 500
GetExampleResponse_NoExcept(got) ==
    IF got.exc = "" /\ AnalysisResponseValid(ToResponse(got.result))
    THEN ResultResponse(got.result)
    ELSE HTTPException(500, "Internal Server Error")

\* routes.py 100-110, after get_example has left got: a result becomes the
\* body, a ValueError (and the ValidationError of AnalysisResponse) a 404
GetExampleResponse(got) ==
    IF got.exc = ""
    THEN IF AnalysisResponseValid(ToResponse(got.result))
         THEN ResultResponse(got.result)
         ELSE HTTPException(404, "AnalysisResponse")
    ELSE IF IsValueError(got.exc)
    THEN HTTPException(404, got.msg)
    ELSE HTTPException(500, "Internal Server Error")

\* GET /examples/{example_id} with a get_example that takes the example out
\* of the catalog (EXAMPLES.pop) instead of reading it
GetExample_Pop ==
    /\ pc \in {"idle", "done"}
    /\ \E id \in ExampleIds :
          /\ path' = Path("get", id)
          /\ fetched' = GetExampleCall(examples, id)
          /\ examples' = SelectSeq(examples, LAMBDA e : e.key # id)
    /\ response' = GetExampleResponse(fetched')
    /\ pc' = "done"
    /\ request' = NoRequest
    /\ calls' = 0
    /\ gemini' = NoReply
    /\ parsed' = NotCalled
    /\ raised' = NoException
    /\ log' = <<>>
    /\ UNCHANGED <<env, handlers>>

\* GET /examples/{example_id} (routes.py 89-110)
GetExample ==
    /\ pc \in {"idle", "done"}
    /\ \E id \in ExampleIds :
          /\ path' = Path("get", id)
          /\ fetched' = GetExampleCall(examples, id)
    /\ response' = GetExampleResponse(fetched')
    /\ pc' = "done"
    /\ request' = NoRequest
    /\ calls' = 0
    /\ gemini' = NoReply
    /\ parsed' = NotCalled
    /\ raised' = NoException
    /\ log' = <<>>
    /\ UNCHANGED <<env, examples, handlers>>

Next ==
    \/ Startup
    \/ Receive
    \/ CheckType
    \/ CheckSize
    \/ Generate
    \/ Parse
    \/ BuildResponse
    \/ ExceptValueError
    \/ ExceptException
    \/ ListExamples
    \/ GetExample

Spec == Init /\ [][Next]_vars

(***************************************************************************)
(* Several requests in progress at once.  A handler is a coroutine: it     *)
(* runs without interruption from one await to the next.  analyze_image    *)
(* awaits once, at image.read() (routes.py 43); process_image is a plain   *)
(* call; list_examples and get_example do not await.                       *)
(***************************************************************************)
\* routes.py 36-40: the exception the media type test raises, if any
RaisedByTypeCheck(content_type) ==
    IF content_type = NoContentType THEN Exception("AttributeError", "startswith")
    ELSE IF ~StartsWithImage(content_type)
    THEN Exception("HTTPException", "400: File must be an image")
    ELSE NoException

\* routes.py 47-51: the exception the size test raises, if any
RaisedBySizeCheck(length) ==
    IF ExceedsMaximum(length)
    THEN Exception("HTTPException", "400: Image size exceeds maximum allowed size")
    ELSE NoException

\* routes.py 64-75: the response the except clauses make of an exception
ExceptClauses(exc) ==
    IF CaughtAsValueError(exc)
    THEN HTTPException(400, exc.msg)
    ELSE HTTPException(500, "Failed to process image")

\* ai_service.py 41-76: process_image, given what generate_content leaves
ProcessImage(reply, description) ==
    IF reply.exc # "" THEN Raised(reply.exc, "upstream")
    ELSE ParseResponse(reply.text, description)

\* routes.py 55-75: from the call of process_image to the response
AnalyzeAfterCall(req, reply) ==
    LET result == ProcessImage(reply, req.description)
    IN IF result.exc # "" THEN ExceptClauses(Exception(result.exc, result.msg))
       ELSE IF ~AnalysisResponseValid(ToResponse(result.result))
       THEN ExceptClauses(Exception("ValidationError", "AnalysisResponse"))
       ELSE ResultResponse(result.result)

\* the replies of the generation service to concurrent requests: a document
\* in a fence, a document cut short, an exception
ConcurrentReplies ==
    { [exc |-> "", text |-> <<Fence, WordJson, Ws, LBrace, TStr("generated_files"), Colon, LBrace,
                              TStr("app.jsx"), Colon, TStr("code"), RBrace, RBrace, Ws, Fence>>],
      [exc |-> "", text |-> <<LBrace, TStr("analysis_summary"), Colon>>],
      [exc |-> "APIError", text |-> <<>>] }

ConcurrentRequests ==
    { [content_type |-> ct, length |-> n, description |-> "A task tracker"] :
        ct \in ContentTypes, n \in {0, MAX_UPLOAD_SIZE + MaxOver} }

Finished(handler, resp) == [handler EXCEPT !.pc = "done", !.response = resp]

\* a request arrives and is routed to a free handler
CReceive(h) ==
    /\ handlers[h].pc \in {"idle", "done"}
    /\ \/ \E req \in ConcurrentRequests :
             handlers' = [handlers EXCEPT ![h] =
                 [IdleHandler EXCEPT !.pc = "received", !.path = Path("analyze", ""),
                                     !.request = req]]
       \/ handlers' = [handlers EXCEPT ![h] =
                 [IdleHandler EXCEPT !.pc = "received", !.path = Path("list", "")]]
       \/ \E id \in ExampleIds :
             handlers' = [handlers EXCEPT ![h] =
                 [IdleHandler EXCEPT !.pc = "received", !.path = Path("get", id)]]
    /\ UNCHANGED <<pc, env, examples, path, request, calls, gemini, parsed, fetched, raised, response, log>>

\* routes.py 34-43: analyze_image up to its await
CAnalyzeStart(h) ==
    /\ handlers[h].pc = "received"
    /\ handlers[h].path.route = "analyze"
    /\ LET exc == RaisedByTypeCheck(handlers[h].request.content_type)
       IN handlers' = [handlers EXCEPT ![h] =
              IF exc # NoException THEN Finished(@, ExceptClauses(exc))
              ELSE [@ EXCEPT !.pc = "reading"]]
    /\ UNCHANGED <<pc, env, examples, path, request, calls, gemini, parsed, fetched, raised, response, log>>

\* routes.py 43-75: analyze_image from its await to the response
CAnalyzeFinish(h) ==
    /\ handlers[h].pc = "reading"
    /\ LET exc == RaisedBySizeCheck(handlers[h].request.length)
       IN IF exc # NoException
          THEN handlers' = [handlers EXCEPT ![h] = Finished(@, ExceptClauses(exc))]
          ELSE \E reply \in ConcurrentReplies :
                  handlers' = [handlers EXCEPT ![h] =
                      Finished([@ EXCEPT !.gemini = reply],
                               AnalyzeAfterCall(handlers[h].request, reply))]
    /\ UNCHANGED <<pc, env, examples, path, request, calls, gemini, parsed, fetched, raised, response, log>>

\* routes.py 78-86
CListExamples(h) ==
    /\ handlers[h].pc = "received"
    /\ handlers[h].path.route = "list"
    /\ handlers' = [handlers EXCEPT ![h] = Finished(@, ListExamplesResponse(examples))]
    /\ UNCHANGED <<pc, env, examples, path, request, calls, gemini, parsed, fetched, raised, response, log>>

\* get_example that takes the example out of the catalog (EXAMPLES.pop)
CGetExample_Pop(h) ==
    /\ handlers[h].pc = "received"
    /\ handlers[h].path.route = "get"
    /\ handlers' = [handlers EXCEPT ![h] =
           Finished(@, GetExampleResponse(GetExampleCall(examples, handlers[h].path.example_id)))]
    /\ examples' = SelectSeq(examples, LAMBDA e : e.key # handlers[h].path.example_id)
    /\ UNCHANGED <<pc, env, path, request, calls, gemini, parsed, fetched, raised, response, log>>

\* routes.py 89-110
CGetExample(h) ==
    /\ handlers[h].pc = "received"
    /\ handlers[h].path.route = "get"
    /\ handlers' = [handlers EXCEPT ![h] =
           Finished(@, GetExampleResponse(GetExampleCall(examples, handlers[h].path.example_id)))]
    /\ UNCHANGED <<pc, env, examples, path, request, calls, gemini, parsed, fetched, raised, response, log>>

\* the application after a successful start, with no request yet
InitConcurrent ==
    /\ pc = "idle"
    /\ env = SettingsFields
    /\ examples = EXAMPLES
    /\ path = NoPath
    /\ request = NoRequest
    /\ calls = 0
    /\ gemini = NoReply
    /\ parsed = NotCalled
    /\ fetched = NotCalled
    /\ raised = NoException
    /\ response = NoResponse
    /\ handlers = [h \in Handlers |-> IdleHandler]
    /\ log = <<>>

NextConcurrent ==
    \E h \in Handlers :
        \/ CReceive(h)
        \/ CAnalyzeStart(h)
        \/ CAnalyzeFinish(h)
        \/ CListExamples(h)
        \/ CGetExample(h)

SpecConcurrent == InitConcurrent /\ [][NextConcurrent]_vars

(***************************************************************************)
(* The application after startup, serving /analyze requests whose replies  *)
(* are documents with the file maps of EntryMaps.                          *)
(***************************************************************************)
\* routes.py 55 and ai_service.py 41-63, 74-76, with these replies
GenerateEntries ==
    /\ pc = "generate"
    /\ calls' = calls + 1
    /\ \/ \E text \in EntryReplies :
             /\ gemini' = [exc |-> "", text |-> text]
             /\ raised' = raised
             /\ pc' = "parse"
       \/ \E e \in UpstreamErrors :
             /\ gemini' = [exc |-> e, text |-> <<>>]
             /\ raised' = Exception(e, "upstream")
             /\ pc' = "except"
    /\ UNCHANGED <<request, parsed, response>>
    /\ UNCHANGED <<env, examples, path, fetched, handlers, log>>

NextEntries ==
    \/ Receive
    \/ CheckType
    \/ CheckSize
    \/ GenerateEntries
    \/ Parse
    \/ BuildResponse
    \/ ExceptValueError
    \/ ExceptException

SpecEntries == InitConcurrent /\ [][NextEntries]_vars

(***************************************************************************)
(* Properties.                                                             *)
(***************************************************************************)
CriticalNames == {"App.jsx", "models.py", "main.py", "README.md"}

\* _parse_response has run for the request, and it has returned a result
ParseRan == parsed.exc # "not called"
Succeeded == parsed.exc = ""

\* the file map of the result
Out == parsed.result.files

\* the reply after fence stripping, and the generated_files mapping of the
\* document it holds (empty when the member is absent)
CleanedReply == CleanText(gemini.text)
InputFiles ==
    DictGet(JsonLoads(CleanedReply).val.items, "generated_files", PyDict(<<>>)).items

\* the names taken for App.jsx other than App.jsx itself
VariantNames == ReactNames \ {"App.jsx"}

\* C1: every result _parse_response returns has a file map with the four
\* keys App.jsx, models.py, main.py and README.md
C1_FourKeys == Succeeded => CriticalNames \subseteq Keys(Out)

\* a result was returned for a document that has none of the four keys
C1_Witness ==
    /\ Succeeded
    /\ Keys(InputFiles) \cap CriticalNames = {}
    /\ Keys(InputFiles) # {}

\* C2: a reply that is not a JSON document after fence stripping makes
\* _parse_response raise ValueError and return no result
C2_MalformedFails ==
    (ParseRan /\ ~IsJsonDocument(CleanedReply))
        => (parsed.exc = "ValueError" /\ parsed.result = NoResult)

\* the content of the first variant name in the order of the input mapping
FirstVariantContent(files) ==
    LET i == CHOOSE i \in 1..Len(files) :
                 /\ files[i].key \in VariantNames
                 /\ \A j \in 1..(i - 1) : files[j].key \notin VariantNames
    IN files[i].val

\* C3: when generated_files has a variant name and not App.jsx, the result
\* has App.jsx with the content of the variant (the first one in the order of
\* the mapping), and every variant name is still there with its own content
C3_VariantCopied ==
    (Succeeded /\ Keys(InputFiles) \cap VariantNames # {} /\ "App.jsx" \notin Keys(InputFiles))
        => /\ "App.jsx" \in Keys(Out)
           /\ Get(Out, "App.jsx") = FirstVariantContent(InputFiles)
           /\ \A k \in Keys(InputFiles) \cap VariantNames :
                 k \in Keys(Out) /\ Get(Out, k) = Get(InputFiles, k)

\* the content of app.jsx has been copied to App.jsx
C3_Witness ==
    /\ Succeeded
    /\ "app.jsx" \in Keys(InputFiles)
    /\ "App.jsx" \notin Keys(InputFiles)
    /\ Get(InputFiles, "app.jsx") = PyStr("code")
    /\ Get(Out, "App.jsx") = PyStr("code")

\* the four placeholder strings
Placeholders == {AppPlaceholder} \cup {critical_files[i].val.s : i \in 1..Len(critical_files)}

\* C4: when generated_files has neither App.jsx nor a variant name, the
\* result has the App.jsx placeholder at App.jsx, and the four placeholders
\* are pairwise distinct
C4_AppPlaceholder ==
    (Succeeded /\ Keys(InputFiles) \cap ReactNames = {})
        => /\ "App.jsx" \in Keys(Out)
           /\ Get(Out, "App.jsx") = PyStr(AppPlaceholder)
           /\ Cardinality(Placeholders) = 4

\* a document with files, none of them a React name, got the placeholder
C4_Witness ==
    /\ Succeeded
    /\ InputFiles # <<>>
    /\ Keys(InputFiles) \cap ReactNames = {}
    /\ Get(Out, "App.jsx") = PyStr(AppPlaceholder)

\* the result of normalizing a document whose generated_files is the file map
Renormalized(files) ==
    ParseResponse(Dumps(PyDict(<<Entry("generated_files", PyDict(files))>>)),
                  request.description)

\* C5: normalizing a document whose generated_files is the file map of a
\* result returns that file map: same keys in the same order, same values
C5_Idempotent ==
    Succeeded
        => /\ Renormalized(Out).exc = ""
           /\ Renormalized(Out).result.files = Out
           /\ DictEq(Renormalized(Out).result.files, Out)

\* the file map normalized again was made with a copy and with placeholders
C5_Witness ==
    /\ Succeeded
    /\ "App.tsx" \in Keys(InputFiles)
    /\ Keys(InputFiles) \cap CriticalNames = {}
    /\ DictEq(Renormalized(Out).result.files, Out)

\* a text with no fence marker and no bare word in it
IsPlain(t) == \A i \in 1..Len(t) : t[i] \notin {Fence, WordJson, WordOther}

\* the outcome for the text of the reply wrapped in the fence w
Wrapped(w) == ParseResponse(Wrap(w, gemini.text), request.description)

\* C6 as claimed: a text wrapped in a fence, whatever the language tag of
\* the opening marker, has the outcome of the text unwrapped: the same result,
\* or a failure of the same type
C6_AnyFence ==
    (ParseRan /\ IsPlain(gemini.text))
        => \A w \in Fences :
              Wrapped(w).exc = parsed.exc /\ Wrapped(w).result = parsed.result

\* C6: a text wrapped in a fence whose opening marker has the tag json or no
\* tag has the outcome of the text unwrapped: the same result, or the same
\* failure with the same message
C6_JsonFence ==
    (ParseRan /\ IsPlain(gemini.text))
        => \A w \in JsonFences : Wrapped(w) = parsed

\* a plain document was normalized, and so is its wrapped text
C6_Witness ==
    /\ Succeeded
    /\ IsPlain(gemini.text)
    /\ "app.jsx" \in Keys(InputFiles)
    /\ \A w \in JsonFences : Wrapped(w).exc = ""

\* C7: each of the four keys that generated_files has keeps its value in the
\* result, the empty string too
C7_PresenceGates ==
    Succeeded
        => \A k \in CriticalNames \cap Keys(InputFiles) : Get(Out, k) = Get(InputFiles, k)

\* an empty main.py and an empty App.jsx were kept
C7_Witness ==
    /\ Succeeded
    /\ {"main.py", "App.jsx"} \subseteq Keys(InputFiles)
    /\ Get(InputFiles, "main.py") = PyStr("")
    /\ Get(InputFiles, "App.jsx") = PyStr("")
    /\ Get(Out, "main.py") = PyStr("")
    /\ Get(Out, "App.jsx") = PyStr("")

\* the upload fails a validation of the handler: its declared media type is
\* not an image type, or its length exceeds the maximum
FailsValidation ==
    \/ request.content_type # NoContentType /\ ~StartsWithImage(request.content_type)
    \/ StartsWithImage(request.content_type) /\ ExceedsMaximum(request.length)

\* C8: the response to an upload that fails validation has status 400 and
\* a message
C8_Validation400 ==
    (pc = "done" /\ FailsValidation) => (response.status = 400 /\ response.detail # "")

\* C9: the response is 500, with no result body, when _parse_response has
\* rejected the reply
C9_Malformed500 ==
    (pc = "done" /\ parsed.exc = "ValueError")
        => (response.status = 500 /\ response.body = NoResult)

\* C10: the response is 500 when the call of the generation service raised,
\* whatever the type of the exception
C10_Upstream500 ==
    (pc = "done" /\ gemini.exc \in UpstreamErrors) => response.status = 500

\* the value json.loads gives for the reply after fence stripping
Loaded == JsonLoads(CleanedReply)

\* C11: a reply that is a JSON document whose top level is not an object
\* makes _parse_response raise ValueError, no other exception, and return no
\* result
C11_NonObjectFails ==
    (ParseRan /\ Loaded.ok /\ Loaded.val.type # "dict")
        => (parsed.exc = "ValueError" /\ parsed.result = NoResult)

\* a reply that is a JSON array was rejected with ValueError
C11_Witness ==
    /\ ParseRan
    /\ Loaded.ok
    /\ Loaded.val.type = "list"
    /\ parsed.exc = "ValueError"

\* C12: the summary of the result is the value of analysis_summary when the
\* object has that member, and the fixed prefix followed by the description
\* when it has not
C12_Summary ==
    Succeeded
        => parsed.result.summary =
              IF "analysis_summary" \in Keys(Loaded.val.items)
              THEN Get(Loaded.val.items, "analysis_summary")
              ELSE PyStr("Generated application based on: " \o request.description)

\* a result without analysis_summary in the reply has the fallback summary
C12_Witness ==
    /\ Succeeded
    /\ "analysis_summary" \notin Keys(Loaded.val.items)
    /\ request.description = "A task tracker"
    /\ parsed.result.summary = PyStr("Generated application based on: A task tracker")

\* the placeholder of each of the four keys
PlaceholderOf(name) ==
    IF name = "App.jsx" THEN PyStr(AppPlaceholder) ELSE Get(critical_files, name)

\* C13: an object without generated_files is normalized without failure, and
\* the file map of the result is the four keys, each with its placeholder
C13_AbsentFiles ==
    (ParseRan /\ Loaded.ok /\ Loaded.val.type = "dict"
        /\ "generated_files" \notin Keys(Loaded.val.items))
        => /\ parsed.exc = ""
           /\ Keys(Out) = CriticalNames
           /\ Len(Out) = 4
           /\ \A k \in CriticalNames : Get(Out, k) = PlaceholderOf(k)

\* an object with a summary and no generated_files got the four placeholders
C13_Witness ==
    /\ Succeeded
    /\ "generated_files" \notin Keys(Loaded.val.items)
    /\ "analysis_summary" \in Keys(Loaded.val.items)
    /\ Keys(Out) = CriticalNames

\* the identifiers of the catalog
CatalogIds == {"food-pantry", "library", "clinic"}

\* C14: for each of the three identifiers get_example returns a result whose
\* file map has the four keys, and the normalizer has not run
C14_CatalogFourKeys ==
    (path.route = "get" /\ path.example_id \in CatalogIds)
        => /\ fetched.exc = ""
           /\ CriticalNames \subseteq Keys(fetched.result.files)
           /\ parsed = NotCalled
           /\ calls = 0

\* the clinic example was fetched with its four files
C14_Witness ==
    /\ pc = "done"
    /\ path = Path("get", "clinic")
    /\ fetched.exc = ""
    /\ Keys(fetched.result.files) = CriticalNames

\* C15: get_example raises ValueError, and returns nothing, for an identifier
\* outside the catalog, and returns the catalogued result for one in it
C15_NotFound ==
    path.route = "get"
        => IF path.example_id \in CatalogIds
           THEN fetched.exc = "" /\ fetched.result = Get(EXAMPLES, path.example_id)
           ELSE fetched.exc = "ValueError" /\ fetched.result = NoResult

\* an identifier in another case was not found
C15_Witness ==
    /\ path = Path("get", "Food-Pantry")
    /\ fetched.exc = "ValueError"

\* C16: GET /examples/{id} answers 404 for an identifier outside the catalog
\* and 200 with the summary and the files of the example for one in it
C16_ExampleStatus ==
    (pc = "done" /\ path.route = "get")
        => IF path.example_id \in CatalogIds
           THEN /\ response.status = 200
                /\ ToResponse(response.body) = ToResponse(Get(EXAMPLES, path.example_id))
                /\ AnalysisResponseValid(ToResponse(response.body))
           ELSE response.status = 404 /\ response.body = NoResult

\* an unknown identifier was answered with 404
C16_Witness ==
    /\ pc = "done"
    /\ path = Path("get", "unknown-id")
    /\ response.status = 404

\* C17: once the application has started, whatever requests were served, the
\* catalog is the one built at startup, its identifiers are the three, and
\* GET /examples lists exactly these
C17_CatalogImmutable ==
    pc \notin {"boot", "crashed"}
        => /\ examples = EXAMPLES
           /\ Keys(examples) = CatalogIds
           /\ Len(examples) = 3
           /\ (path.route = "list" =>
                  /\ response.status = 200
                  /\ Len(response.ids) = 3
                  /\ {response.ids[i] : i \in 1..Len(response.ids)} = CatalogIds)

\* the catalog is whole after a successful get_example
C17_Witness ==
    /\ pc = "done"
    /\ path = Path("get", "library")
    /\ response.status = 200
    /\ examples = EXAMPLES

\* C18: generate_content is called once per process_image; when the call
\* raises, there is no second call, _parse_response does not run, and the
\* exception reaches the caller as it was raised
C18_SingleAttempt ==
    /\ calls <= 1
    /\ gemini.exc # "not called" => calls = 1
    /\ gemini.exc \in UpstreamErrors
          => /\ pc \in {"except", "done"}
             /\ parsed = NotCalled
             /\ raised = Exception(gemini.exc, "upstream")

\* a request ended after one failed call
C18_Witness ==
    /\ pc = "done"
    /\ gemini.exc = "ConnectError"
    /\ calls = 1
    /\ parsed = NotCalled

\* the response a request gets when it is served alone by the application as
\* it is after startup
Alone(handler) ==
    CASE handler.path.route = "analyze" ->
            LET exc == RaisedByTypeCheck(handler.request.content_type)
                big == RaisedBySizeCheck(handler.request.length)
            IN IF exc # NoException THEN ExceptClauses(exc)
               ELSE IF big # NoException THEN ExceptClauses(big)
               ELSE AnalyzeAfterCall(handler.request, handler.gemini)
      [] handler.path.route = "list" -> ListExamplesResponse(EXAMPLES)
      [] handler.path.route = "get" ->
            GetExampleResponse(GetExampleCall(EXAMPLES, handler.path.example_id))

\* C19: a step of a handler writes neither the catalog nor the state of
\* another request, and a request that is done has the response it gets when
\* served alone with the same inputs and the same reply
C19_Independent ==
    [][ /\ examples' = examples
        /\ env' = env
        /\ Cardinality({h \in Handlers : handlers'[h] # handlers[h]}) <= 1
        /\ \A h \in Handlers :
              handlers'[h].pc = "done" => handlers'[h].response = Alone(handlers'[h]) ]_vars

\* an example was served while an upload was being read, and the upload was
\* then answered
C19_Witness ==
    /\ handlers[1].pc = "done"
    /\ handlers[1].path.route = "analyze"
    /\ handlers[1].response.status = 200
    /\ handlers[2].pc = "done"
    /\ handlers[2].path = Path("get", "clinic")
    /\ handlers[2].response.status = 200

\* a single request, served step by step, ends with the response Alone gives
AloneIsSequential ==
    pc = "done"
        => response = Alone([path |-> path, request |-> request, gemini |-> gemini])

\* the settings the application requires
RequiredSettings ==
    {"API_V1_PREFIX", "PROJECT_NAME", "VERSION", "GEMINI_API_KEY", "GEMINI_MODEL",
     "CORS_ORIGINS", "DEBUG", "MAX_UPLOAD_SIZE"}

\* C20: the application serves requests only if every required setting has a
\* value; otherwise it fails while starting, before any request is taken
C20_FailFast ==
    /\ pc \notin {"boot", "crashed"} => RequiredSettings \subseteq env
    /\ pc = "crashed" => (path = NoPath /\ response = NoResponse /\ examples = <<>>)

\* the start failed for want of the API key alone
C20_Witness ==
    /\ pc = "crashed"
    /\ env = RequiredSettings \ {"GEMINI_API_KEY"}

\* C21: when generated_files has two or more variant names and not App.jsx,
\* App.jsx gets the content of the variant that is first in the order of the
\* mapping, and parsing the same reply again gives the same result
C21_FirstInOrder ==
    (Succeeded /\ Cardinality(Keys(InputFiles) \cap VariantNames) >= 2
               /\ "App.jsx" \notin Keys(InputFiles))
        => /\ \E i \in 1..Len(InputFiles) :
                 /\ InputFiles[i].key \in VariantNames
                 /\ \A j \in 1..(i - 1) : InputFiles[j].key \notin VariantNames
                 /\ Get(Out, "App.jsx") = InputFiles[i].val
           /\ ParseResponse(gemini.text, request.description) = parsed

\* app.js stands before App.tsx, which is before it in the list of names and
\* in the alphabet, and App.jsx has the content of app.js
C21_Witness ==
    /\ Succeeded
    /\ Len(InputFiles) = 2
    /\ InputFiles[1].key = "app.js"
    /\ InputFiles[2].key = "App.tsx"
    /\ InputFiles[1].val # InputFiles[2].val
    /\ Get(Out, "App.jsx") = InputFiles[1].val

\* App or app, with the suffix of App.jsx or one of the two other suffixes
ClaimedVariants ==
    {first \o "pp" \o suffix : first \in {"A", "a"}, suffix \in {".jsx", ".tsx", ".js"}}

\* C22: the names taken for the React component are these and no others, and
\* a mapping with none of them gets the placeholder at App.jsx
C22_FixedVariants ==
    /\ ReactNames = ClaimedVariants
    /\ (Succeeded /\ Keys(InputFiles) \cap ClaimedVariants = {})
          => Get(Out, "App.jsx") = PyStr(AppPlaceholder)

\* APP.JSX and src/App.jsx were there and App.jsx got the placeholder
C22_Witness ==
    /\ Succeeded
    /\ Keys(InputFiles) = {"APP.JSX", "src/App.jsx"}
    /\ Get(Out, "App.jsx") = PyStr(AppPlaceholder)
    /\ Get(Out, "APP.JSX") = Get(InputFiles, "APP.JSX")

\* the request fails the media type check or the size check
FailsChecks ==
    \/ request.content_type = NoContentType
    \/ request.content_type.major # "image"
    \/ request.length > MAX_UPLOAD_SIZE

\* C23: the generation service is not called for a request that fails the
\* media type check or the size check, and is called at most once for one
\* that passes them
C23_ValidationFirst ==
    path.route = "analyze"
        => /\ FailsChecks => (calls = 0 /\ gemini = NoReply /\ parsed = NotCalled)
           /\ calls <= 1

\* a request with too large an upload ended without a call
C23_Witness ==
    /\ pc = "done"
    /\ path.route = "analyze"
    /\ request.content_type.major = "image"
    /\ request.length > MAX_UPLOAD_SIZE
    /\ calls = 0

\* the size check has been made for the request
SizeChecked ==
    /\ path.route = "analyze"
    /\ request.content_type.major = "image"
    /\ pc \notin {"check_type", "check_size"}

\* the exception of the size check is the one in flight
SizeRejected == raised = Exception("HTTPException", "400: Image size exceeds maximum allowed size")

\* C24: the size check rejects an upload exactly when its length is greater
\* than MAX_UPLOAD_SIZE: lengths 0 and MAX_UPLOAD_SIZE pass and the handler
\* goes on to the generation call, length MAX_UPLOAD_SIZE + 1 does not
C24_StrictlyGreater ==
    SizeChecked
        => /\ SizeRejected <=> request.length > MAX_UPLOAD_SIZE
           /\ request.length \in {0, MAX_UPLOAD_SIZE}
                 => (~SizeRejected /\ (pc = "generate" \/ calls = 1))
           /\ request.length = MAX_UPLOAD_SIZE + 1 => (SizeRejected /\ calls = 0)

\* an upload of MAX_UPLOAD_SIZE bytes went on to the generation call
C24_Witness ==
    /\ SizeChecked
    /\ request.length = MAX_UPLOAD_SIZE
    /\ ~SizeRejected
    /\ calls = 1

\* json.loads failed on the reply of the request
JsonFailed == ParseRan /\ ~Loaded.ok

\* the message of the ValueError raised for the reply
Message == ParseErrorMessage(gemini.text, ParseBody(gemini.text, request.description))

\* the lines logged when the exception was caught
FailureLines == SubSeq(log, 2, Len(log))

\* C25: when json.loads fails on a reply longer than the bound, the message
\* of the ValueError quotes a prefix of the reply, not empty and no longer
\* than the bound, and no line logged for the failure quotes more than the
\* prefix of that length
C25_BoundedPrefix ==
    (JsonFailed /\ Len(gemini.text) > ERROR_PREFIX)
        => /\ Message.quoted # <<>>
           /\ Message.quoted = Prefix(gemini.text, Len(Message.quoted))
           /\ Len(Message.quoted) <= ERROR_PREFIX
           /\ \A i \in 1..Len(FailureLines) :
                 /\ FailureLines[i].quoted = Prefix(gemini.text, Len(FailureLines[i].quoted))
                 /\ Len(FailureLines[i].quoted) <= ERROR_PREFIX

\* whatever fails in _parse_response, neither the message nor a line logged
\* quotes more of the reply than the prefix of the bound
QuotesBounded ==
    (ParseRan /\ ~Succeeded)
        => /\ Len(Message.quoted) <= ERROR_PREFIX
           /\ \A i \in 1..Len(log) : Len(log[i].quoted) <= ERROR_PREFIX
           /\ \A i \in 1..Len(FailureLines) :
                 FailureLines[i].quoted = Prefix(gemini.text, Len(FailureLines[i].quoted))

\* C26: when generated_files has App.jsx and variant names, in any order,
\* App.jsx keeps its own content, and so does every variant
C26_CanonicalKept ==
    (Succeeded /\ "App.jsx" \in Keys(InputFiles) /\ Keys(InputFiles) \cap VariantNames # {})
        => /\ Get(Out, "App.jsx") = Get(InputFiles, "App.jsx")
           /\ \A k \in Keys(InputFiles) \cap VariantNames : Get(Out, k) = Get(InputFiles, k)

\* app.js stood before App.jsx with another content, and App.jsx kept its own
C26_Witness ==
    /\ Succeeded
    /\ Len(InputFiles) = 2
    /\ InputFiles[1].key = "app.js"
    /\ InputFiles[2].key = "App.jsx"
    /\ InputFiles[1].val # InputFiles[2].val
    /\ Get(Out, "App.jsx") = InputFiles[2].val

\* C27: every key of generated_files is in the result with the value it had,
\* and the keys of the result are those of generated_files and the four
\* critical names
C27_Preserved ==
    Succeeded
        => /\ \A i \in 1..Len(InputFiles) :
                 /\ InputFiles[i].key \in Keys(Out)
                 /\ Get(Out, InputFiles[i].key) = InputFiles[i].val
           /\ Keys(Out) = Keys(InputFiles) \cup CriticalNames

\* a file under a name that is not known, with quotes, a backslash and a
\* newline in it, is in the result as it was
C27_Witness ==
    /\ Succeeded
    /\ "src/App.jsx" \in Keys(InputFiles)
    /\ Get(InputFiles, "src/App.jsx") = PyStr("\"a\\b\"\n")
    /\ Get(Out, "src/App.jsx") = PyStr("\"a\\b\"\n")
    /\ Cardinality(Keys(Out)) = Cardinality(Keys(InputFiles)) + 4

\* the document is an object with a generated_files member that is not an
\* object
FilesNotMapping ==
    /\ ParseRan
    /\ Loaded.ok
    /\ Loaded.val.type = "dict"
    /\ "generated_files" \in Keys(Loaded.val.items)
    /\ Get(Loaded.val.items, "generated_files").type # "dict"

\* C28: a generated_files member that is there and is not a mapping makes
\* _parse_response raise ValueError and return no result
C28_NotMappingFails ==
    FilesNotMapping => (parsed.exc = "ValueError" /\ parsed.result = NoResult)

\* generated_files was null and the request ended with the ValueError
C28_Witness ==
    /\ FilesNotMapping
    /\ Get(Loaded.val.items, "generated_files") = PyNone
    /\ parsed.exc = "ValueError"
    /\ pc = "done"

====
